---- MODULE Spec2Model ----
(***************************************************************************)
(* State-machine model of the streaming ID3v2 tag parser                   *)
(* (src/id3v2parser.c, src/id3v2parser.h).                                 *)
(*                                                                         *)
(* The parser context (ID3Parser) is the record `parser`.  One call of     *)
(* id3_parser_feed is modelled as FeedCall (entry), one action per         *)
(* iteration of the main while loop (one per case of the switch) and       *)
(* FeedReturn (the loop guard fails, return 0).  id3_parser_init and       *)
(* id3_parser_cleanup are single actions.  The bytes fed come from a       *)
(* stream chosen in Init; every call takes the next chunk of it.           *)
(***************************************************************************)
EXTENDS Integers, Sequences, FiniteSets, TLC

VARIABLES
    tag,        \* descriptor of the byte stream under test (never changes)
    stream,     \* the bytes the caller feeds, in order
    pos,        \* number of stream bytes handed over by earlier feed calls
    len,        \* id3_parser_feed: argument len of the call in progress
    i,          \* id3_parser_feed: local i
    pc,         \* "idle" | "loop" | "hung" | "crashed"
    ret,        \* value returned by the last id3_parser_feed call (2 = none yet)
    parser,     \* the ID3Parser context
    heap,       \* set of live malloc'ed payload buffers
    nalloc,     \* number of successful malloc calls so far
    dfree,      \* TRUE once free() was called on a pointer that is not live
    calls,      \* log of frame_callback invocations: <<id, size, data>>
    since,      \* input bytes consumed since the tag header was decoded
    mode,       \* how the stream was chunked so far: "none" | "whole" (one
                \* call) | "ones" (one byte per call) | "parts" (non-empty
                \* chunks, none of them ending inside the signature) | "mixed"
    onlyFeeds,  \* TRUE while the only calls after the first init were feeds
                \* (and cleanups that found nothing to free)
    oom,        \* TRUE once malloc has returned NULL
    leaked,     \* buffers whose pointer id3_parser_init overwrote while live
    consumed    \* input bytes consumed by all the feed calls so far

vars == <<tag, stream, pos, len, i, pc, ret, parser, heap, nalloc, dfree,
          calls, since, mode, onlyFeeds, oom, leaked, consumed>>

-----------------------------------------------------------------------------
(* Bounds of the model *)

\* longest chunk a feed call gets, besides "all that is left"
MaxChunk == 3
\* largest payload of a frame in the generated well-formed tags
MaxPayload == 2

-----------------------------------------------------------------------------
(* Integer helpers: C operators on unsigned values *)

Min(a, b) == IF a < b THEN a ELSE b

\* a << n on a uint32_t.  No shift in the code leaves 32 bits (the operand
\* is a byte and n <= 24).  TLC's integers end at 2^31 - 1, so the streams of
\* the model keep the first byte of a plain 32-bit field below 128.
Shl(a, n) == a * (2 ^ n)

\* a | b
RECURSIVE BitOr(_, _)
BitOr(a, b) ==
    IF a = 0 THEN b
    ELSE IF b = 0 THEN a
    ELSE (IF a % 2 = 1 \/ b % 2 = 1 THEN 1 ELSE 0) + 2 * BitOr(a \div 2, b \div 2)

\* a & 0x40 (non-zero or zero)
Bit6(a) == (a \div 64) % 2 = 1

-----------------------------------------------------------------------------
(* The integer codec, lines 4-18 *)

synchsafe_to_uint32(buf) ==
    BitOr(BitOr(Shl(buf[1], 21), Shl(buf[2], 14)), BitOr(Shl(buf[3], 7), buf[4]))

bytes_to_uint32(buf) ==
    BitOr(BitOr(Shl(buf[1], 24), Shl(buf[2], 16)), BitOr(Shl(buf[3], 8), buf[4]))

-----------------------------------------------------------------------------
(* The context *)

STATE_FIND_HEADER == "STATE_FIND_HEADER"
STATE_READ_HEADER == "STATE_READ_HEADER"
STATE_READ_EXT_HEADER == "STATE_READ_EXT_HEADER"
STATE_READ_FRAME_HEADER == "STATE_READ_FRAME_HEADER"
STATE_READ_FRAME_DATA == "STATE_READ_FRAME_DATA"
STATE_DONE == "STATE_DONE"

NULL == 0

\* memset(parser, 0, sizeof(ID3Parser)); state = STATE_FIND_HEADER;
\* frame_callback = callback.  `payload` is the contents written so far to
\* the buffer current_frame.data points to, `capacity` the number of bytes
\* that buffer was allocated with.
InitParser ==
    [ state           |-> STATE_FIND_HEADER,
      buffer          |-> [k \in 1..10 |-> 0],
      buf_pos         |-> 0,
      version         |-> 0,
      revision        |-> 0,
      flags           |-> 0,
      tag_size        |-> 0,
      bytes_processed |-> 0,
      ext_header_size |-> 0,
      ext_bytes_read  |-> 0,
      id              |-> [k \in 1..5 |-> 0],
      size            |-> 0,
      fflags          |-> 0,
      data            |-> NULL,
      data_read       |-> 0,
      frame_valid     |-> 0,
      frame_callback  |-> TRUE,
      payload         |-> << >>,
      capacity        |-> 0 ]

\* the bytes buf[from+1 .. from+4] of a 10-byte array, as a 4-byte span
Span4(buf, from) == [k \in 1..4 |-> buf[from + k]]

\* buffer[buf_pos++] = data[i++], n times
Fill(p, d, ii, n) ==
    [k \in 1..10 |-> IF k > p.buf_pos /\ k <= p.buf_pos + n
                     THEN d[ii + (k - p.buf_pos)]
                     ELSE p.buffer[k]]

\* the C string a char array holds: the bytes before the first NUL
RECURSIVE CStr(_, _)
CStr(arr, k) ==
    IF k > 5 \/ arr[k] = 0 THEN << >> ELSE <<arr[k]>> \o CStr(arr, k + 1)

\* what one iteration of the main loop yields
Step(p, ii, cb, rc, malloced, freed) ==
    [p |-> p, i |-> ii, cb |-> cb, rc |-> rc, malloced |-> malloced, freed |-> freed]

-----------------------------------------------------------------------------
(* id3_parser_feed: the cases of the switch, one loop iteration each.      *)
(* d is the chunk (data[k] is d[k+1]), ii the value of i on entry, n the   *)
(* argument len.  The inner while loops copy one byte per round until one  *)
(* of their conjuncts fails, so they run Min-of-the-three-limits rounds.   *)

\* number of rounds of an inner loop whose limits are a, b and c
Rounds(a, b, c) ==
    LET m == Min(a, Min(b, c)) IN IF m < 0 THEN 0 ELSE m

\* mutant: an 'I' too close to the end of the chunk to be followed by "D3"
\* is kept as the start of a signature
FindHeaderCarry(p, d, ii, n) ==
    IF d[ii + 1] = 73 /\ ii + 2 >= n
    THEN Step([p EXCEPT !.buffer = [k \in 1..10 |-> IF k = 1 THEN 73
                                                   ELSE p.buffer[k]],
                        !.buf_pos = 1,
                        !.state = STATE_READ_HEADER],
              ii + 1, << >>, "break", FALSE, NULL)
    ELSE IF d[ii + 1] = 73 /\ d[ii + 2] = 68 /\ d[ii + 3] = 51
    THEN Step([p EXCEPT !.buffer = [k \in 1..10 |-> IF k <= 3 THEN d[ii + k]
                                                   ELSE p.buffer[k]],
                        !.buf_pos = 3,
                        !.state = STATE_READ_HEADER],
              ii + 3, << >>, "break", FALSE, NULL)
    ELSE Step(p, ii + 1, << >>, "break", FALSE, NULL)

\* lines 42-55
FindHeader(p, d, ii, n) ==
    IF d[ii + 1] = 73 /\ ii + 2 < n /\ d[ii + 2] = 68 /\ d[ii + 3] = 51
    THEN Step([p EXCEPT !.buffer = [k \in 1..10 |-> IF k <= 3 THEN d[ii + k]
                                                   ELSE p.buffer[k]],
                        !.buf_pos = 3,
                        !.state = STATE_READ_HEADER],
              ii + 3, << >>, "break", FALSE, NULL)
    ELSE Step(p, ii + 1, << >>, "break", FALSE, NULL)

\* lines 57-80
ReadHeader(p, d, ii, n) ==
    LET k   == Rounds(10 - p.buf_pos, n - ii, n - ii)
        buf == Fill(p, d, ii, k)
        p1  == [p EXCEPT !.buffer = buf, !.buf_pos = p.buf_pos + k]
        p2  == [p1 EXCEPT !.version = buf[4],
                          !.revision = buf[5],
                          !.flags = buf[6],
                          !.tag_size = synchsafe_to_uint32(Span4(buf, 6)),
                          !.bytes_processed = 0]
    IN  IF p1.buf_pos = 10
        THEN IF Bit6(p2.flags) /\ p2.version >= 3
             THEN Step([p2 EXCEPT !.state = STATE_READ_EXT_HEADER,
                                  !.buf_pos = 0,
                                  !.ext_bytes_read = 0],
                       ii + k, << >>, "break", FALSE, NULL)
             ELSE Step([p2 EXCEPT !.state = STATE_READ_FRAME_HEADER,
                                  !.buf_pos = 0],
                       ii + k, << >>, "break", FALSE, NULL)
        ELSE Step(p1, ii + k, << >>, "break", FALSE, NULL)

\* lines 82-111
ReadExtHeader(p, d, ii, n) ==
    LET k1 == Rounds(4 - p.buf_pos, n - ii, p.tag_size - p.bytes_processed)
        p1 == [p EXCEPT !.buffer = Fill(p, d, ii, k1),
                        !.buf_pos = p.buf_pos + k1,
                        !.bytes_processed = p.bytes_processed + k1]
        i1 == ii + k1
        p2 == IF p1.buf_pos = 4
              THEN [p1 EXCEPT !.ext_header_size =
                                  IF p1.version = 4
                                  THEN synchsafe_to_uint32(Span4(p1.buffer, 0))
                                  ELSE bytes_to_uint32(Span4(p1.buffer, 0)),
                              !.ext_bytes_read = 4]
              ELSE p1
        k2 == Rounds(p2.ext_header_size - p2.ext_bytes_read, n - i1,
                     p2.tag_size - p2.bytes_processed)
        p3 == [p2 EXCEPT !.ext_bytes_read = p2.ext_bytes_read + k2,
                         !.bytes_processed = p2.bytes_processed + k2]
        i2 == i1 + k2
    IN  IF p3.ext_bytes_read >= p3.ext_header_size
        THEN Step([p3 EXCEPT !.state = STATE_READ_FRAME_HEADER, !.buf_pos = 0],
                  i2, << >>, "break", FALSE, NULL)
        ELSE Step(p3, i2, << >>, "break", FALSE, NULL)

\* mutant: the 6-byte frame header of version 2.2 is forgotten
header_size_ten(p) == 10

\* line 121
header_size(p) == IF p.version >= 3 THEN 10 ELSE 6

\* mutant: the version 2.2 layout is applied to every version
ParseFrameHeaderV2(p) ==
    [p EXCEPT !.id = [k \in 1..5 |-> IF k <= 3 THEN p.buffer[k]
                                     ELSE IF k = 4 THEN 0 ELSE p.id[k]],
              !.size = BitOr(BitOr(Shl(p.buffer[4], 16), Shl(p.buffer[5], 8)),
                             p.buffer[6]),
              !.fflags = 0]

\* lines 136-155: id, size and flags from the scratch buffer
ParseFrameHeader(p) ==
    IF p.version >= 3
    THEN [p EXCEPT !.id = [k \in 1..5 |-> IF k <= 4 THEN p.buffer[k] ELSE 0],
                   !.size = IF p.version = 4
                            THEN synchsafe_to_uint32(Span4(p.buffer, 4))
                            ELSE bytes_to_uint32(Span4(p.buffer, 4)),
                   !.fflags = BitOr(Shl(p.buffer[9], 8), p.buffer[10]) % 65536]
    ELSE [p EXCEPT !.id = [k \in 1..5 |-> IF k <= 3 THEN p.buffer[k]
                                          ELSE IF k = 4 THEN 0 ELSE p.id[k]],
                   !.size = BitOr(BitOr(Shl(p.buffer[4], 16), Shl(p.buffer[5], 8)),
                                  p.buffer[6]),
                   !.fflags = 0]

\* mutant: the first scratch byte is not tested for padding
IsPaddingNever(p) == FALSE

\* line 131
IsPadding(p) == p.buffer[1] = 0

\* line 115
TagExhausted(p) == p.bytes_processed >= p.tag_size

\* lines 113-166; m is what malloc returns (NULL when it fails)
ReadFrameHeader(p, d, ii, n, m) ==
    IF TagExhausted(p)
    THEN Step([p EXCEPT !.state = STATE_DONE], ii, << >>, "break", FALSE, NULL)
    ELSE
    LET k  == Rounds(header_size(p) - p.buf_pos, n - ii,
                     p.tag_size - p.bytes_processed)
        p1 == [p EXCEPT !.buffer = Fill(p, d, ii, k),
                        !.buf_pos = p.buf_pos + k,
                        !.bytes_processed = p.bytes_processed + k]
        q  == ParseFrameHeader(p1)
        p2 == [q EXCEPT !.data = m,
                        !.capacity = IF m = NULL THEN 0 ELSE q.size]
    IN  IF p1.buf_pos = header_size(p)
        THEN IF IsPadding(p1)
             THEN Step([p1 EXCEPT !.state = STATE_DONE],
                       ii + k, << >>, "break", FALSE, NULL)
             ELSE IF m = NULL
             THEN Step(p2, ii + k, << >>, "return -1", TRUE, NULL)
             ELSE Step([p2 EXCEPT !.data_read = 0,
                                  !.frame_valid = 1,
                                  !.state = STATE_READ_FRAME_DATA,
                                  !.payload = << >>],
                       ii + k, << >>, "break", TRUE, NULL)
        ELSE Step(p1, ii + k, << >>, "break", FALSE, NULL)

\* mutant: the payload copy ignores the tag byte budget
PayloadRoundsNoBudget(p, ii, n) ==
    Rounds(p.size - p.data_read, n - ii, n - ii)

\* mutant: the payload copy does not stop at the frame's size
PayloadRoundsNoSize(p, ii, n) ==
    Rounds(n - ii, n - ii, p.tag_size - p.bytes_processed)

\* lines 170-171: rounds of the payload copy loop
PayloadRounds(p, ii, n) ==
    Rounds(p.size - p.data_read, n - ii, p.tag_size - p.bytes_processed)

\* lines 168-194; hp is the set of live buffers.  A write through a pointer
\* that is NULL or not live does not return ("segv").
ReadFrameData(p, d, ii, n, hp) ==
    LET k  == PayloadRounds(p, ii, n)
        p1 == [p EXCEPT !.payload = p.payload \o SubSeq(d, ii + 1, ii + k),
                        !.data_read = p.data_read + k,
                        !.bytes_processed = p.bytes_processed + k]
        cb == IF p1.frame_callback
              THEN << [id |-> CStr(p1.id, 1), data |-> p1.payload, size |-> p1.size] >>
              ELSE << >>
    IN  IF k > 0 /\ p.data \notin hp
        THEN Step(p, ii, << >>, "segv", FALSE, NULL)
        ELSE IF p1.data_read >= p1.size
        THEN Step([p1 EXCEPT !.data = NULL,
                             !.frame_valid = 0,
                             !.buf_pos = 0,
                             !.state = STATE_READ_FRAME_HEADER,
                             !.payload = << >>,
                             !.capacity = 0],
                  ii + k, cb, "break", FALSE, p1.data)
        ELSE Step(p1, ii + k, << >>, "break", FALSE, NULL)

\* line 40
LoopGuard(p, ii, n) == ii < n /\ p.state # STATE_DONE

\* lines 41-198: the switch.  The case STATE_DONE (return 1) is dispatched
\* only under LoopGuard, which excludes that state.
Dispatch(p, d, ii, n, m, hp) ==
    CASE p.state = STATE_FIND_HEADER       -> FindHeader(p, d, ii, n)
      [] p.state = STATE_READ_HEADER       -> ReadHeader(p, d, ii, n)
      [] p.state = STATE_READ_EXT_HEADER   -> ReadExtHeader(p, d, ii, n)
      [] p.state = STATE_READ_FRAME_HEADER -> ReadFrameHeader(p, d, ii, n, m)
      [] p.state = STATE_READ_FRAME_DATA   -> ReadFrameData(p, d, ii, n, hp)
      [] p.state = STATE_DONE              -> Step(p, ii, << >>, "return 1", FALSE, NULL)

-----------------------------------------------------------------------------
(* The byte streams fed to the parser: the binary layout of an ID3v2 tag   *)
(* (signature, version, revision, flags, synchsafe size, optional extended *)
(* header, frames, padding), with bytes before and after it.               *)

Sig == <<73, 68, 51>>

\* the encoder of the 4-byte synchsafe size
SynchsafeBytes(v) ==
    <<(v \div 2097152) % 128, (v \div 16384) % 128, (v \div 128) % 128, v % 128>>

Zeros(k) == [j \in 1..k |-> 0]

FrameBytes(ver, f) ==
    IF ver >= 3 THEN f.id \o f.szb \o f.flb \o f.pay ELSE f.id \o f.szb \o f.pay

RECURSIVE FramesBytes(_, _)
FramesBytes(ver, fs) ==
    IF fs = << >> THEN << >>
    ELSE FrameBytes(ver, Head(fs)) \o FramesBytes(ver, Tail(fs))

Body(t) == t.ext \o FramesBytes(t.ver, t.frames) \o Zeros(t.pad)

TagBytes(t) ==
    t.junk \o Sig \o <<t.ver, 0, t.hflags>>
           \o SynchsafeBytes(Len(Body(t)) - t.cut) \o Body(t) \o t.trail

\* offset in the stream of the first byte after the 10-byte tag header
BodyStart(t) == Len(t.junk) + 10

Tag(junk, ver, hflags, ext, frames, pad, cut, trail, valid) ==
    [junk |-> junk, ver |-> ver, hflags |-> hflags, ext |-> ext,
     frames |-> frames, pad |-> pad, cut |-> cut, trail |-> trail,
     valid |-> valid]

\* a frame with the given id letter, size bytes, flag bytes and payload
Frame(ver, c, szb, flb, pay) ==
    [id  |-> IF ver >= 3 THEN <<84, c, 84, 50>> ELSE <<84, c, 50>>,
     szb |-> IF ver >= 3 THEN szb ELSE Tail(szb),
     flb |-> flb,
     pay |-> pay]

Payload(k) == [j \in 1..k |-> 96 + j]

\* a well-formed frame with a payload of k bytes
GoodFrame(ver, c, k) == Frame(ver, c, <<0, 0, 0, k>>, <<0, 0>>, Payload(k))

Versions == {2, 3, 4}

FrameLists(ver) ==
    {<< >>}
    \cup {<<GoodFrame(ver, 73, a)>> : a \in 0..MaxPayload}
    \cup {<<GoodFrame(ver, 73, a), GoodFrame(ver, 80, IF a = 0 THEN 1 ELSE 0)>> :
            a \in 0..MaxPayload}

\* tags that follow the layout, with and without padding
WellFormedTags ==
    UNION {{Tag(<< >>, v, 0, << >>, fs, pd, 0, << >>, TRUE) :
                fs \in FrameLists(v), pd \in {0, 11}} : v \in Versions}

\* bytes before the signature and after the tag
EmbeddedTags ==
    {Tag(<<9, 73>>, v, IF pd = 3 THEN 128 ELSE 0, << >>, <<GoodFrame(v, 73, 1)>>,
         pd, 0, <<255, 251, 84>>, TRUE) :
        v \in Versions, pd \in {0, 3, 11}}

\* tags with an extended header: a size field saying S, followed by k bytes
ExtTags ==
    {Tag(<< >>, v, 64, <<0, 0, 0, S>> \o [j \in 1..k |-> 1],
         <<GoodFrame(v, 73, 1)>>, 0, 0, << >>, k = S \/ k = S - 4) :
        v \in {3, 4}, S \in {0, 4, 6}, k \in {0, 2, 6}}

\* tags whose declared size ends before their frames (or extended header) do
ShortTags ==
    {Tag(<< >>, v, 0, << >>, <<GoodFrame(v, 73, 2)>>, 0, c, <<255>>, FALSE) :
        v \in Versions, c \in {1, 2, 5}}
    \cup
    {Tag(<< >>, v, 64, <<0, 0, 0, 6, 1, 1>>, <<GoodFrame(v, 73, 2)>>, 0, c, <<255>>, FALSE) :
        v \in {3, 4}, c \in {1, 13, 16}}

\* frame headers with arbitrary size and flag bytes
RawHeaders ==
    {<<0, 0, 0, 1, 0, 0>>, <<0, 0, 1, 0, 1, 2>>, <<0, 1, 0, 129, 0, 0>>,
     <<1, 0, 128, 1, 255, 255>>, <<0, 0, 0, 255, 0, 128>>, <<2, 3, 4, 5, 6, 7>>,
     <<0, 0, 1, 128, 1, 0>>, <<127, 255, 255, 255, 0, 1>>}

RawHeaderTags ==
    {Tag(<< >>, v, 0, << >>,
         <<Frame(v, 73, SubSeq(h, 1, 4), SubSeq(h, 5, 6), <<97>>)>>, 0, 0, << >>,
         SubSeq(h, 1, 4) = <<0, 0, 0, 1>>) :
        v \in Versions, h \in RawHeaders}

\* the example of the specification: "TIT2" with payload "abcd", 9 bytes of
\* padding, declared size 17
ExampleTags ==
    {Tag(<< >>, 3, 0, << >>,
         <<[id |-> <<84, 73, 84, 50>>, szb |-> <<0, 0, 0, 4>>, flb |-> <<0, 0>>,
            pay |-> <<97, 98, 99, 100>>]>>, 9, 6, << >>, TRUE)}

\* a tag followed at once by a second (version 2.3) tag
TwoTags ==
    {Tag(<< >>, v, 0, << >>, <<GoodFrame(v, 73, 2)>>, 0, 0,
         TagBytes(Tag(<< >>, 3, 0, << >>, <<GoodFrame(3, 80, 1)>>, 0, 0, << >>, TRUE)),
         TRUE) : v \in Versions}

Tags ==
    WellFormedTags \cup EmbeddedTags \cup ExtTags \cup ShortTags
        \cup RawHeaderTags \cup ExampleTags \cup TwoTags

-----------------------------------------------------------------------------
(* The calls *)

\* id3_parser_cleanup, lines 29-34: the context after it and the pointer freed
\* mutant: the pointer is freed but not set to NULL
cleanup_keeps_pointer(p) ==
    IF p.data # NULL THEN [p |-> p, freed |-> p.data] ELSE [p |-> p, freed |-> NULL]

cleanup(p) ==
    IF p.data # NULL
    THEN [p |-> [p EXCEPT !.data = NULL], freed |-> p.data]
    ELSE [p |-> p, freed |-> NULL]

Init ==
    /\ tag \in Tags
    /\ stream = TagBytes(tag)
    /\ pos = 0
    /\ len = 0
    /\ i = 0
    /\ pc = "idle"
    /\ ret = 2
    /\ parser = InitParser
    /\ heap = {}
    /\ nalloc = 0
    /\ dfree = FALSE
    /\ calls = << >>
    /\ since = 0
    /\ mode = "none"
    /\ onlyFeeds = TRUE
    /\ oom = FALSE
    /\ leaked = {}
    /\ consumed = 0

\* id3_parser_init (lines 21-26) on the context in use
ReInit ==
    /\ pc = "idle"
    /\ parser' = InitParser
    /\ since' = 0
    /\ mode' = "mixed"
    /\ onlyFeeds' = FALSE
    /\ leaked' = leaked \cup ({parser.data} \ {NULL})
    /\ UNCHANGED <<tag, stream, pos, len, i, pc, ret, heap, nalloc, dfree, calls,
                   oom, consumed>>

\* id3_parser_cleanup (lines 29-34)
Cleanup ==
    /\ pc = "idle"
    /\ LET c == cleanup(parser) IN
         /\ parser' = c.p
         /\ heap' = heap \ {c.freed}
         /\ dfree' = (dfree \/ (c.freed # NULL /\ c.freed \notin heap))
         /\ mode' = IF c.freed # NULL THEN "mixed" ELSE mode
         /\ onlyFeeds' = (onlyFeeds /\ c.freed = NULL)
    /\ UNCHANGED <<tag, stream, pos, len, i, pc, ret, nalloc, calls, since, oom,
                   leaked, consumed>>

\* the chunk lengths a call may get: up to MaxChunk bytes, or all that is left
ChunkLens ==
    {k \in 0..(Len(stream) - pos) : k <= MaxChunk \/ k = Len(stream) - pos}

\* TRUE when a chunk that starts at offset p of the stream starts inside the
\* signature, that is after its first or its second byte
CutsSignature(p) == p \in {Len(tag.junk) + 1, Len(tag.junk) + 2}

NextMode(k) ==
    IF k = 0 THEN "mixed"
    ELSE IF mode = "none" /\ k = Len(stream) THEN "whole"
    ELSE IF mode \in {"none", "ones"} /\ k = 1 THEN "ones"
    ELSE IF CutsSignature(pos) THEN "mixed"
    ELSE IF mode \in {"none", "parts"} \/ (mode = "ones" /\ pos <= Len(tag.junk))
    THEN "parts"
    ELSE "mixed"

\* mutant: every call starts over with the search for a signature
FeedCallRestarts ==
    /\ pc = "idle"
    /\ \E k \in ChunkLens :
         /\ len' = k
         /\ mode' = NextMode(k)
    /\ i' = 0
    /\ pc' = "loop"
    /\ parser' = [parser EXCEPT !.state = STATE_FIND_HEADER]
    /\ UNCHANGED <<tag, stream, pos, ret, heap, nalloc, dfree, calls,
                   since, onlyFeeds, oom, leaked, consumed>>

\* id3_parser_feed is entered with the next k bytes of the stream (lines 37-38)
FeedCall ==
    /\ pc = "idle"
    /\ \E k \in ChunkLens :
         /\ len' = k
         /\ mode' = NextMode(k)
    /\ i' = 0
    /\ pc' = "loop"
    /\ UNCHANGED <<tag, stream, pos, ret, parser, heap, nalloc, dfree, calls,
                   since, onlyFeeds, oom, leaked, consumed>>

\* the argument data of the call in progress
Chunk == SubSeq(stream, pos + 1, pos + len)

\* the effect of one loop iteration on the variables
Apply(st) ==
    IF st.rc = "segv"
    THEN /\ pc' = "crashed"
         /\ UNCHANGED <<tag, stream, pos, len, i, ret, parser, heap, nalloc,
                        dfree, calls, since, mode, onlyFeeds, oom, leaked,
                        consumed>>
    ELSE
    /\ parser' = st.p
    /\ i' = st.i
    /\ calls' = calls \o st.cb
    /\ heap' = (heap \ {st.freed})
                 \cup (IF st.malloced /\ st.p.data # NULL THEN {st.p.data} ELSE {})
    /\ nalloc' = IF st.malloced /\ st.p.data # NULL THEN nalloc + 1 ELSE nalloc
    /\ dfree' = (dfree \/ (st.freed # NULL /\ st.freed \notin heap))
    /\ since' = IF parser.state = STATE_READ_HEADER THEN 0
                ELSE IF parser.state = STATE_FIND_HEADER THEN since
                ELSE since + (st.i - i)
    /\ IF st.rc = "return -1"
       THEN /\ ret' = -1
            /\ pc' = "idle"
            /\ pos' = pos + len
       ELSE /\ pc' = IF st.p = parser /\ st.i = i /\ st.cb = << >>
                     THEN "hung" ELSE "loop"
            /\ UNCHANGED <<ret, pos>>
    /\ oom' = (oom \/ (st.malloced /\ st.p.data = NULL))
    /\ consumed' = consumed + (st.i - i)
    /\ UNCHANGED <<tag, stream, len, mode, onlyFeeds, leaked>>

IterFindHeader ==
    /\ pc = "loop"
    /\ LoopGuard(parser, i, len)
    /\ parser.state = STATE_FIND_HEADER
    /\ Apply(FindHeader(parser, Chunk, i, len))

IterReadHeader ==
    /\ pc = "loop"
    /\ LoopGuard(parser, i, len)
    /\ parser.state = STATE_READ_HEADER
    /\ Apply(ReadHeader(parser, Chunk, i, len))

IterReadExtHeader ==
    /\ pc = "loop"
    /\ LoopGuard(parser, i, len)
    /\ parser.state = STATE_READ_EXT_HEADER
    /\ Apply(ReadExtHeader(parser, Chunk, i, len))

\* malloc (line 158) returns a fresh pointer or NULL
IterReadFrameHeader ==
    /\ pc = "loop"
    /\ LoopGuard(parser, i, len)
    /\ parser.state = STATE_READ_FRAME_HEADER
    /\ \E m \in {NULL, nalloc + 1} :
         Apply(ReadFrameHeader(parser, Chunk, i, len, m))

IterReadFrameData ==
    /\ pc = "loop"
    /\ LoopGuard(parser, i, len)
    /\ parser.state = STATE_READ_FRAME_DATA
    /\ Apply(ReadFrameData(parser, Chunk, i, len, heap))

\* the loop guard fails: return 0 (line 201)
FeedReturn ==
    /\ pc = "loop"
    /\ ~LoopGuard(parser, i, len)
    /\ ret' = 0
    /\ pc' = "idle"
    /\ pos' = pos + len
    /\ UNCHANGED <<tag, stream, len, i, parser, heap, nalloc, dfree, calls,
                   since, mode, onlyFeeds, oom, leaked, consumed>>

-----------------------------------------------------------------------------
(* One whole call of id3_parser_feed as a function of the context and the  *)
(* chunk, malloc succeeding: the loop of lines 40-201 run to its end.      *)

RECURSIVE FeedLoop(_, _, _, _, _)
FeedLoop(p, d, ii, n, cl) ==
    IF ~LoopGuard(p, ii, n)
    THEN [p |-> p, calls |-> cl, ret |-> "0", i |-> ii]
    ELSE LET st == Dispatch(p, d, ii, n, 1, {p.data} \ {NULL}) IN
         IF st.rc = "segv" THEN [p |-> p, calls |-> cl, ret |-> "segv", i |-> ii]
         ELSE IF st.rc = "return -1"
         THEN [p |-> st.p, calls |-> cl, ret |-> "-1", i |-> st.i]
         ELSE IF st.rc = "return 1"
         THEN [p |-> st.p, calls |-> cl, ret |-> "1", i |-> st.i]
         ELSE IF st.p = p /\ st.i = ii /\ st.cb = << >>
         THEN [p |-> p, calls |-> cl, ret |-> "hung", i |-> ii]
         ELSE FeedLoop(st.p, d, st.i, n, cl \o st.cb)

\* the stream s fed in calls of k bytes each (the last one shorter), from
\* context p with callback log cl
RECURSIVE FeedChunks(_, _, _, _)
FeedChunks(p, s, k, cl) ==
    IF s = << >> THEN [p |-> p, calls |-> cl, ret |-> "none", i |-> 0]
    ELSE LET n == Min(k, Len(s))
             r == FeedLoop(p, SubSeq(s, 1, n), 0, n, cl)
         IN  IF n = Len(s) \/ r.ret \in {"segv", "hung"} THEN r
             ELSE FeedChunks(r.p, SubSeq(s, n + 1, Len(s)), k, r.calls)

\* the whole stream in one call, on a fresh context
FeedWhole(s) == FeedChunks(InitParser, s, Len(s), << >>)

Next ==
    \/ ReInit
    \/ Cleanup
    \/ FeedCall
    \/ IterFindHeader
    \/ IterReadHeader
    \/ IterReadExtHeader
    \/ IterReadFrameHeader
    \/ IterReadFrameData
    \/ FeedReturn

Spec == Init /\ [][Next]_vars

-----------------------------------------------------------------------------
(* Properties *)

\* the status a whole call returns, as the integer the caller sees
RetCode(r) == CASE r = "0" -> 0 [] r = "-1" -> -1 [] r = "1" -> 1 [] OTHER -> 3

\* TRUE when the context has decoded a tag header
HeaderDecoded == parser.state \notin {STATE_FIND_HEADER, STATE_READ_HEADER}

\* the callbacks a well-formed tag calls for once `fed` bytes of the stream
\* have been handed over: one per frame that lies wholly inside them
RECURSIVE FramesFed(_, _, _, _)
FramesFed(t, k, off, fed) ==
    IF k > Len(t.frames) THEN << >>
    ELSE LET f   == t.frames[k]
             end == off + Len(FrameBytes(t.ver, f))
         IN  IF end <= fed
             THEN <<[id |-> f.id, data |-> f.pay, size |-> Len(f.pay)]>>
                      \o FramesFed(t, k + 1, end, fed)
             ELSE << >>

ExpectedCalls(t, fed) == FramesFed(t, 1, BodyStart(t) + Len(t.ext), fed)

\* C1: a valid tag fed one byte per call yields the same callbacks, in the
\* same order, and the same final status as the same stream fed in one call.
C1_ChunkSizeInvariance ==
    (pc = "idle" /\ onlyFeeds /\ ~oom /\ tag.valid /\ mode = "ones"
       /\ pos = Len(stream))
    => (calls = FeedWhole(stream).calls /\ ret = RetCode(FeedWhole(stream).ret))

\* C2: a call of id3_parser_feed that returns with the state Done returns 1.
C2_DoneReturnsOne ==
    (pc = "idle" /\ parser.state = STATE_DONE) => ret = 1

\* C3: every call of id3_parser_feed terminates: no iteration of the main
\* loop leaves both i and the context as they were (pc = "hung" marks the
\* iteration that does, after which the loop repeats it for ever).
C3_FeedTerminates == pc # "hung"

\* C4: when a feed call has returned, the callback has been invoked exactly
\* once for each frame of a valid tag fed completely so far, in stream
\* order, with the frame's id, size and payload, and for nothing else.
C4_OneCallbackPerFrame ==
    (pc = "idle" /\ onlyFeeds /\ ~oom /\ tag.valid)
    => calls = ExpectedCalls(tag, pos)

\* C5: when a feed call returns, no frame whose last byte has been consumed
\* (its header decoded and data_read = size, size 0 included) is still
\* waiting for its callback.
C5_CallbackInSameCall ==
    (pc = "idle" /\ onlyFeeds /\ ~oom)
    => ~(parser.state = STATE_READ_FRAME_DATA
            /\ parser.data_read >= parser.size)

\* C6: once the tag header is decoded, bytes_processed <= tag_size,
\* bytes_processed is the number of input bytes consumed since the header,
\* and so no more than tag_size bytes are consumed after the header.
C6_TagByteBudget ==
    HeaderDecoded
    => /\ parser.bytes_processed <= parser.tag_size
       /\ parser.bytes_processed = since
       /\ since <= parser.tag_size

\* C6 witness: the budget is used up while the chunk still has bytes left
C6_Witness ==
    /\ HeaderDecoded
    /\ pc \in {"loop", "hung"}
    /\ parser.tag_size > 0
    /\ parser.bytes_processed = parser.tag_size
    /\ i < len

\* C7: a complete frame header whose first byte is zero takes the parser to
\* Done although bytes_processed < tag_size, with no allocation and no
\* callback, and in Done no further input byte is consumed.
C7_PaddingTermination ==
    [][ /\ (pc = "loop"
              /\ parser.state = STATE_READ_FRAME_HEADER
              /\ parser.bytes_processed < parser.tag_size
              /\ parser'.buf_pos = header_size(parser)
              /\ parser'.buffer[1] = 0)
           => (parser'.state = STATE_DONE
                 /\ heap' = heap /\ nalloc' = nalloc /\ oom' = oom
                 /\ parser'.data = parser.data
                 /\ calls' = calls)
        /\ (parser.state = STATE_DONE /\ parser'.state = STATE_DONE)
           => (since' = since /\ (i' = i \/ i' = 0) /\ calls' = calls)
      ]_vars

\* C7 witness: Done by padding with tag bytes and chunk bytes left over
C7_Witness ==
    /\ parser.state = STATE_DONE
    /\ parser.buf_pos = header_size(parser)
    /\ parser.buffer[1] = 0
    /\ parser.bytes_processed < parser.tag_size
    /\ pc = "loop"
    /\ i < len

\* C8: at the end of the input every zero-size frame whose header has been
\* fed has had its callback, wherever the chunk boundaries fell, the end of
\* the frame header being the end of the input included.
C8_ZeroSizeFrame ==
    (pc = "idle" /\ onlyFeeds /\ ~oom /\ pos = Len(stream))
    => ~(parser.state = STATE_READ_FRAME_DATA /\ parser.size = 0)

\* C9 as stated: over every sequence of init, feed and cleanup calls each
\* allocated buffer is freed exactly once: none is freed twice, and none is
\* live when id3_parser_cleanup has returned.  (A cleanup returns with the
\* pointer NULL, and on a NULL pointer it changes nothing, so the states in
\* which a cleanup has just returned are the idle states with a NULL pointer.)
C9_Original ==
    /\ ~dfree
    /\ (pc = "idle" /\ parser.data = NULL) => heap = {}

\* C9 as amended: no buffer is freed twice; the only live buffers are the
\* one in flight and those that were in flight when id3_parser_init was
\* called again; id3_parser_cleanup frees the buffer in flight, nulls the
\* pointer and frees nothing when the pointer is NULL.
C9_CleanupSafety ==
    /\ [](~dfree /\ heap = leaked \cup ({parser.data} \ {NULL}))
    /\ [][Cleanup => /\ parser'.data = NULL
                     /\ heap' = leaked
                     /\ heap' = heap \ {parser.data}
                     /\ ~dfree']_vars

\* C9 witness: cleanup was called mid-frame and freed the buffer in flight
C9_Witness ==
    /\ pc = "idle"
    /\ parser.state = STATE_READ_FRAME_DATA
    /\ parser.data_read < parser.size
    /\ parser.data = NULL
    /\ nalloc = 1
    /\ heap = {}

\* the frame header fields as C10 states them, from the scratch bytes b
\* (b[k+1] is byte k of the header)
HeaderAsClaimed(v, b) ==
    IF v = 2
    THEN [hs |-> 6, id |-> <<b[1], b[2], b[3], 0>>,
          size |-> b[4] * 65536 + b[5] * 256 + b[6], flags |-> 0]
    ELSE [hs |-> 10, id |-> <<b[1], b[2], b[3], b[4], 0>>,
          size |-> IF v = 4
                   THEN b[5] * 2097152 + b[6] * 16384 + b[7] * 128 + b[8]
                   ELSE b[5] * 16777216 + b[6] * 65536 + b[7] * 256 + b[8],
          flags |-> b[9] * 256 + b[10]]

HeaderDecodedAsClaimed ==
    LET h == HeaderAsClaimed(parser.version, parser.buffer) IN
    /\ parser.buf_pos = h.hs
    /\ \A k \in 1..Len(h.id) : parser.id[k] = h.id[k]
    /\ parser.size = h.size
    /\ parser.fflags = h.flags

\* C10 as stated: a decoded frame header has the id, size and flags of its
\* version's layout, the version 4 size being b4*2^21 + b5*2^14 + b6*2^7 + b7.
C10_Original ==
    parser.state = STATE_READ_FRAME_DATA => HeaderDecodedAsClaimed

\* C10 as amended: the same, for version 4 only when each of the four size
\* bytes is below 128 (the code ors the four groups, which is their sum
\* only when they do not overlap).
C10_VersionDispatch ==
    (parser.state = STATE_READ_FRAME_DATA
       /\ (parser.version = 4 => \A k \in 5..8 : parser.buffer[k] < 128))
    => HeaderDecodedAsClaimed

\* C10 witness: a version 4 header with a size of more than one 7-bit group
C10_Witness ==
    /\ parser.state = STATE_READ_FRAME_DATA
    /\ parser.version = 4
    /\ \A k \in 5..8 : parser.buffer[k] < 128
    /\ parser.buffer[7] > 0
    /\ parser.fflags > 0

\* C11: a failed allocation is fatal and sticky: once malloc has returned
\* NULL (the call returning -1), and as long as id3_parser_init is not called
\* again, no callback is invoked any more and every feed call that is given
\* at least one byte returns -1.
C11_AllocFailureSticky ==
    [][(oom /\ onlyFeeds /\ onlyFeeds')
          => (calls' = calls /\ ((pc' = "idle" /\ len' > 0) => ret' = -1))]_vars

\* C12: Done is absorbing: in Done no call of id3_parser_feed (entry, loop,
\* return) and no id3_parser_cleanup changes a field of the context, consumes
\* an input byte, invokes the callback or allocates.
C12_DoneAbsorbing ==
    [][(parser.state = STATE_DONE /\ ~ReInit)
          => /\ parser' = parser
             /\ calls' = calls
             /\ heap' = heap /\ nalloc' = nalloc /\ oom' = oom
             /\ consumed' = consumed /\ since' = since
             /\ (i' = i \/ (pc = "idle" /\ i' = 0))
             /\ pc' \in {"idle", "loop"}]_vars

\* C12 witness: a call that was entered in Done with bytes to consume has
\* returned (an earlier call had already left bytes of its chunk unconsumed,
\* which only a call that ends in Done does)
C12_Witness ==
    /\ pc = "idle"
    /\ onlyFeeds
    /\ parser.state = STATE_DONE
    /\ len > 0
    /\ i = 0
    /\ consumed < pos - len

\* C13: a valid tag fed in non-empty chunks none of which ends inside the
\* signature yields, once the whole stream is fed, the same callbacks in the
\* same order and the same total of consumed bytes as the stream fed in one
\* call; chunks that end inside the extended header are included.
C13_ResumptionExactness ==
    (pc = "idle" /\ onlyFeeds /\ ~oom /\ tag.valid /\ mode = "parts"
       /\ pos = Len(stream))
    => (calls = FeedWhole(stream).calls /\ consumed = FeedWhole(stream).i)

\* C14: once the 4-byte size field of the extended header is decoded to S,
\* the parser discards exactly S further bytes: when it leaves
\* ReadExtendedHeader in the iteration in which it entered it, with a tag
\* budget of at least 4 + S, it has consumed 4 + S bytes in that state.
C14_ExtSkipLength ==
    [][(pc = "loop"
          /\ parser.state = STATE_READ_EXT_HEADER
          /\ parser'.state = STATE_READ_FRAME_HEADER
          /\ since = 0
          /\ i' - i >= 4
          /\ 4 + parser'.ext_header_size <= parser'.tag_size)
          => since' = 4 + parser'.ext_header_size]_vars

\* C15: the parser leaves ReadExtendedHeader for ReadFrameHeader only when
\* the four bytes of the size field have been accumulated and the skip is
\* finished; with tag budget left, a chunk that ends after one to three
\* bytes of the size field leaves the parser in ReadExtendedHeader.
C15_ExtHeaderOrdering ==
    [][(pc = "loop"
          /\ parser.state = STATE_READ_EXT_HEADER
          /\ parser'.state = STATE_READ_FRAME_HEADER
          /\ parser'.bytes_processed < parser'.tag_size)
          => (parser.buf_pos + (i' - i) >= 4
                /\ parser'.ext_bytes_read >= parser'.ext_header_size)]_vars

\* TRUE when the bytes of the chunk at i are the signature, all three of
\* them inside the chunk
SignatureAt == i + 3 <= len /\ SubSeq(Chunk, i + 1, i + 3) = Sig

\* C16: no partial match of the signature is carried from one call to the
\* next: the parser leaves FindSignature only for ReadHeader and only when
\* 'I', 'D', '3' are consecutive bytes of the chunk of one call, and it then
\* holds these three bytes in the scratch buffer with the cursor at 3 and has
\* consumed them; at any other byte it stays in FindSignature and discards
\* the byte; fed one byte per call it never leaves FindSignature.
C16_SignatureInOneChunk ==
    /\ []((onlyFeeds /\ mode = "ones") => parser.state = STATE_FIND_HEADER)
    /\ [][ /\ (parser.state = STATE_FIND_HEADER
                 /\ parser'.state # STATE_FIND_HEADER)
              => (pc = "loop"
                    /\ SignatureAt
                    /\ parser' = [parser EXCEPT
                                    !.state = STATE_READ_HEADER,
                                    !.buf_pos = 3,
                                    !.buffer = [k \in 1..10 |->
                                                  IF k <= 3 THEN Sig[k]
                                                  ELSE parser.buffer[k]]]
                    /\ i' = i + 3)
           /\ (pc = "loop" /\ parser.state = STATE_FIND_HEADER /\ i < len
                 /\ ~SignatureAt)
              => (parser' = parser /\ i' = i + 1 /\ consumed' = consumed + 1)
        ]_vars

\* C16 witness: the three bytes of the signature were fed in more than one
\* call, and the parser is still searching
C16_Witness ==
    /\ pc = "idle"
    /\ onlyFeeds
    /\ mode \in {"ones", "mixed"}
    /\ pos >= Len(tag.junk) + 3
    /\ consumed = pos
    /\ parser.state = STATE_FIND_HEADER

\* C17: once bytes_processed has reached tag_size while the parser awaits a
\* frame header, the parser reaches Done: when the last feed call of a
\* stream has returned, the parser is not left in ReadFrameHeader with the
\* budget of a tag that has a body used up.
C17_TagExhaustion ==
    (pc = "idle" /\ onlyFeeds /\ ~oom /\ pos = Len(stream)
       /\ parser.state = STATE_READ_FRAME_HEADER /\ parser.tag_size > 0)
    => ~TagExhausted(parser)

\* C18: buf_pos never exceeds 10; it is at most 4 in ReadExtendedHeader and
\* at most 6 in ReadFrameHeader for a version below 3; it is 0 whenever
\* ReadExtendedHeader or ReadFrameHeader is entered.
C18_ScratchCursorBound ==
    /\ [](/\ parser.buf_pos <= 10
          /\ (parser.state = STATE_READ_EXT_HEADER => parser.buf_pos <= 4)
          /\ (parser.state = STATE_READ_FRAME_HEADER /\ parser.version < 3)
                => parser.buf_pos <= 6)
    /\ [][(parser'.state \in {STATE_READ_EXT_HEADER, STATE_READ_FRAME_HEADER}
             /\ parser'.state # parser.state)
             => parser'.buf_pos = 0]_vars

\* C18 witness: a complete version 2.2 frame header in the scratch buffer
\* with the parser still in ReadFrameHeader
C18_Witness ==
    /\ parser.state = STATE_READ_FRAME_HEADER
    /\ parser.version = 2
    /\ parser.buf_pos = 6

\* C19: the payload buffer is allocated once per frame, when its header is
\* decoded, with the declared size, and is not allocated again while the
\* frame is read; data_read <= size in ReadFrameData; every payload byte is
\* written below index size; data_read and bytes_processed advance by the
\* number of payload bytes consumed.
C19_PayloadBufferBound ==
    /\ [](parser.state = STATE_READ_FRAME_DATA
            => (/\ parser.data_read <= parser.size
                /\ Len(parser.payload) = parser.data_read
                /\ (parser.data \in heap => parser.capacity = parser.size)))
    /\ [][ /\ nalloc' # nalloc
              => (/\ parser.state = STATE_READ_FRAME_HEADER
                  /\ parser'.state = STATE_READ_FRAME_DATA
                  /\ nalloc' = nalloc + 1
                  /\ parser'.data \in heap' \ heap
                  /\ parser'.capacity = parser'.size
                  /\ parser'.data_read = 0)
           /\ (parser.state = STATE_READ_FRAME_DATA
                 /\ parser'.state = STATE_READ_FRAME_DATA)
              => (/\ parser'.data \in {parser.data, NULL}
                  /\ parser'.capacity = parser.capacity
                  /\ parser'.size = parser.size
                  /\ nalloc' = nalloc)
           /\ (pc = "loop" /\ parser.state = STATE_READ_FRAME_DATA /\ pc' # "idle")
              => (/\ parser.data_read + (i' - i) <= parser.size
                  /\ parser'.bytes_processed - parser.bytes_processed = i' - i
                  /\ IF parser'.state = STATE_READ_FRAME_DATA
                     THEN parser'.data_read - parser.data_read = i' - i
                     ELSE /\ parser.data_read + (i' - i) = parser.size
                          /\ Len(calls') = Len(calls) + 1
                          /\ Len(calls'[Len(calls')].data) = parser.size)
        ]_vars

\* C19 witness: a call has returned in the middle of a payload
C19_Witness ==
    /\ pc = "idle"
    /\ parser.state = STATE_READ_FRAME_DATA
    /\ parser.data \in heap
    /\ parser.data_read > 0
    /\ parser.data_read < parser.size

\* C20: whenever id3_parser_feed writes a payload byte, the payload buffer
\* is allocated, a feed call after id3_parser_cleanup in the middle of a
\* frame included (pc = "crashed" marks a write through a pointer that is
\* NULL or not live).
C20_BufferLifecycle == pc # "crashed"

====
